---- MODULE Spec2Model ----
(***************************************************************************)
(* Model of the EUIPO proxy (src/main.py): the process-wide OAuth2 token   *)
(* cache (_get_access_token), the upstream search client                   *)
(* (_euipo_get_trademarks), the normalizer (_clean, _extract_label) and    *)
(* the /euipo/search handler with its retry-without-diacritics fallback.   *)
(*                                                                         *)
(* The handlers are coroutines on one event loop: the code between two     *)
(* awaits runs atomically, so every action below is one such segment.      *)
(***************************************************************************)
EXTENDS Integers, Sequences, FiniteSets, TLC

\* ------------------------------------------------------------------ bounds
MaxTime == 1
MaxRequests == 3
MaxRecords == 1
MaxTextLen == 1

\* --------------------------------------------------------- program constants
TokenMargin == 30
DefaultExpiresIn == 3600
HttpOk == 200
ConfigErrorStatus == 500
TokenErrorStatus == 502

\* The requests served concurrently by the event loop.
\* One /euipo/search and one /euipo/raw request are in flight at a time.
SearchProcs == {"search"}
RawProcs == {"raw"}
Procs == SearchProcs \cup RawProcs

\* ------------------------------------------------------- Python/JSON values
JNone == [ty |-> "none"]
JStr(s) == [ty |-> "str", s |-> s]
JInt(i) == [ty |-> "int", i |-> i]
JList(l) == [ty |-> "list", l |-> l]
JDict(d) == [ty |-> "dict", d |-> d]

\* Python truthiness of a value.
Truthy(v) ==
  CASE v.ty = "none" -> FALSE
    [] v.ty = "str" -> v.s # ""
    [] v.ty = "int" -> v.i # 0
    [] v.ty = "list" -> v.l # <<>>
    [] v.ty = "dict" -> DOMAIN v.d # {}

\* dict.get(key) and dict.get(key, default) on a mapping with optional keys.
GetOr(t, key, default) == IF key \in DOMAIN t THEN t[key] ELSE default
Get(t, key) == GetOr(t, key, JNone)

\* x or y
Or(x, y) == IF Truthy(x) THEN x ELSE y

Range(s) == {s[i] : i \in DOMAIN s}

SeqsUpTo(S, n) == UNION {[1..k -> S] : k \in 0..n}

\* ------------------------------------------------------------ _require_env
\* Variant: only a configuration with both values missing is rejected.
RequireEnvFailsBoth(id, secret) == id = "" /\ secret = ""

RequireEnvFails(id, secret) == id = "" \/ secret = ""


\* -------------------------------------------------------- _strip_diacritics
\* Characters of the query text.  "u_grave" is the precomposed U+00F9,
\* "comb_grave" the combining mark U+0300, "fi_lig" the ligature U+FB01.
Chars == {"a", "u_grave"}

\* unicodedata.normalize("NFKD", ch) for one character.
NFKDChar(ch) ==
  CASE ch = "u_grave" -> <<"u", "comb_grave">>
    [] ch = "fi_lig" -> <<"f", "i">>
    [] OTHER -> <<ch>>

RECURSIVE NFKD(_)
NFKD(s) == IF s = <<>> THEN <<>> ELSE NFKDChar(Head(s)) \o NFKD(Tail(s))

\* unicodedata.combining(ch) is non-zero
Combining(ch) == ch = "comb_grave"

RECURSIVE DropCombining(_)
DropCombining(s) ==
  IF s = <<>> THEN <<>>
  ELSE IF Combining(Head(s)) THEN DropCombining(Tail(s))
       ELSE <<Head(s)>> \o DropCombining(Tail(s))

_strip_diacritics(s) == DropCombining(NFKD(s))

\* ----------------------------------------------------------- str.strip()
\* The text values that occur in raw records, with their stripped form.
StrStrip(s) ==
  CASE s = " " -> ""
    [] s = " Acme " -> "Acme"
    [] OTHER -> s

\* isinstance(v, str) and v.strip()
NonBlankStr(v) == v.ty = "str" /\ StrStrip(v.s) # ""

\* ----------------------------------------------------------- _extract_label
\* Variant: name is tried before title.
LabelKeysNameFirst ==
  <<"markText", "verbalElement", "reference", "name", "title">>

LabelKeys == <<"markText", "verbalElement", "reference", "title", "name">>

\* for key in [...]: v = t.get(key); first non-blank string, stripped
RECURSIVE FirstLabel(_, _)
FirstLabel(t, keys) ==
  IF keys = <<>> THEN JNone
  ELSE IF NonBlankStr(Get(t, Head(keys)))
       THEN JStr(StrStrip(Get(t, Head(keys)).s))
       ELSE FirstLabel(t, Tail(keys))

\* w = t.get("wordMarkSpecification") or {}; w.get(...) needs a mapping.
_extract_label(t) ==
  LET w == Or(Get(t, "wordMarkSpecification"), JDict(<<>>)) IN
  IF w.ty # "dict" THEN [raises |-> TRUE, exc |-> "AttributeError", value |-> JNone]
  ELSE LET verbal == Get(w.d, "verbalElement") IN
       [raises |-> FALSE, exc |-> "",
        value |-> IF NonBlankStr(verbal) THEN JStr(StrStrip(verbal.s))
                  ELSE FirstLabel(t, LabelKeys)]

\* ------------------------------------------------------ euipo_search._clean
\* set(classes).intersection(set(filter)) is empty; set() of a list of ints.
NoIntersection(classes, filter) == Range(classes.l) \cap Range(filter.l) = {}

\* set(classes) raises TypeError when classes is truthy and not iterable.
SetRaises(classes) == classes.ty = "int"

Project(t, classes) ==
  [applicationNumber |-> Get(t, "applicationNumber"),
   verbalElement |-> _extract_label(t).value,
   status |-> Get(t, "status"),
   niceClasses |-> classes,
   markFeature |-> Get(t, "markFeature"),
   applicationDate |-> Get(t, "applicationDate"),
   registrationDate |-> Get(t, "registrationDate")]

\* One iteration of the loop: the record is skipped, appended, or raises.
CleanOne(t, filter) ==
  LET classes == Or(Get(t, "niceClasses"), JList(<<>>)) IN
  IF Truthy(filter) /\ SetRaises(classes)
    THEN [raises |-> TRUE, exc |-> "TypeError", value |-> <<>>]
  ELSE IF Truthy(filter) /\ NoIntersection(classes, filter)
    THEN [raises |-> FALSE, exc |-> "", value |-> <<>>]
  ELSE IF _extract_label(t).raises
    THEN [raises |-> TRUE, exc |-> _extract_label(t).exc, value |-> <<>>]
  ELSE [raises |-> FALSE, exc |-> "", value |-> <<Project(t, classes)>>]

RECURSIVE _clean(_, _)
_clean(trademarks, filter) ==
  IF trademarks = <<>> THEN [raises |-> FALSE, exc |-> "", value |-> <<>>]
  ELSE LET h == CleanOne(Head(trademarks), filter) IN
       IF h.raises THEN h
       ELSE LET r == _clean(Tail(trademarks), filter) IN
            IF r.raises THEN r
            ELSE [raises |-> FALSE, exc |-> "", value |-> h.value \o r.value]

\* ------------------------------------------------------------------ errors
HTTPException(status, detail) ==
  [exc |-> "HTTPException", status_code |-> status, detail |-> detail]

\* httpx raises on a request that exceeds timeout=30; nothing catches it.
TimeoutException ==
  [exc |-> "TimeoutException", status_code |-> 0, detail |-> ""]

PyException(name) == [exc |-> name, status_code |-> 0, detail |-> ""]

\* raise HTTPException(status_code=500, detail="Missing ...") in _require_env
EnvError ==
  HTTPException(ConfigErrorStatus,
                "Missing EUIPO_CLIENT_ID / EUIPO_CLIENT_SECRET env vars")

\* What a handler (or helper) ends with.
Raise(e) == [kind |-> "raise", error |-> e]
Return(b) == [kind |-> "return", body |-> b]
NoOutcome == [kind |-> "none"]

\* ------------------------------------------------------ upstream responses
\* A response is either a timeout or a status, a body text and, for a
\* success, the decoded body.
TimeoutResponse ==
  [timeout |-> TRUE, status_code |-> 0, text |-> "", json |-> <<>>]
HttpResponse(status, text, json) ==
  [timeout |-> FALSE, status_code |-> status, text |-> text, json |-> json]

AuthErrorStatuses == {401}
AuthErrorBodies == {"invalid_client"}
AccessTokens == {JStr("t1"), JStr("t2"), JStr("")}
ExpiresIns == {JInt(29), JInt(31)}

AuthJsons ==
  {<<>>}
  \cup {("access_token" :> t) : t \in AccessTokens}
  \cup {("access_token" :> t) @@ ("expires_in" :> e) :
          t \in AccessTokens \ {JStr("")}, e \in ExpiresIns}

AuthResponses ==
  {TimeoutResponse}
  \cup {HttpResponse(st, b, <<>>) : st \in AuthErrorStatuses, b \in AuthErrorBodies}
  \cup {HttpResponse(HttpOk, "{...}", j) : j \in AuthJsons}

SearchErrorStatuses == {429}
SearchErrorBodies == {"rate limited"}

\* Raw trademark records as the upstream returns them.
RawRecords ==
  {[applicationNumber |-> JStr("001"),
    wordMarkSpecification |-> JDict([verbalElement |-> JStr(" Acme ")]),
    markFeature |-> JStr("Word"),
    niceClasses |-> JList(<<25, 9>>)],
   [title |-> JStr("Acme"), name |-> JStr("Other"),
    niceClasses |-> JList(<<25>>)]}

SearchJsons ==
  {<<>>} \cup {("trademarks" :> l) : l \in SeqsUpTo(RawRecords, MaxRecords)}

SearchResponses ==
  {TimeoutResponse}
  \cup {HttpResponse(st, b, <<>>) : st \in SearchErrorStatuses, b \in SearchErrorBodies}
  \cup {HttpResponse(HttpOk, "{...}", j) : j \in SearchJsons}

\* -------------------------------------------------------- request payloads
Texts == SeqsUpTo(Chars, MaxTextLen) \ {<<>>}
Filters == {JNone, JList(<<9>>)}
Pages == {1}
Sizes == {10}

Payloads ==
  [text : Texts, niceClasses : Filters, page : Pages, size : Sizes]

NoPayload == [text |-> <<>>, niceClasses |-> JNone, page |-> 0, size |-> 0]

\* ------------------------------------------------------- _get_access_token
EmptyCache == [token |-> JNone, exp |-> 0]

\* Variants of the validity test: no margin, a margin one second too wide,
\* and a non-strict comparison.
CacheValidNoMargin(cache, t) == Truthy(cache.token) /\ t < cache.exp

CacheValidWideMargin(cache, t) ==
  Truthy(cache.token) /\ t < cache.exp - (TokenMargin + 1)

CacheValidNonStrict(cache, t) ==
  Truthy(cache.token) /\ t <= cache.exp - TokenMargin

\* _token_cache["token"] and now < (_token_cache["exp"] - 30)
CacheValid(cache, t) == Truthy(cache.token) /\ t < cache.exp - TokenMargin

\* Variant: a missing expires_in counts as one minute.
ExpiresInOfShortDefault(j) == GetOr(j, "expires_in", JInt(60)).i

\* int(j.get("expires_in", 3600))
ExpiresInOf(j) == GetOr(j, "expires_in", JInt(DefaultExpiresIn)).i

\* Variant: a generic message instead of the upstream body.
TokenErrorGeneric(r) == HTTPException(TokenErrorStatus, "EUIPO token error")

TokenError(r) ==
  HTTPException(TokenErrorStatus, "EUIPO token error: " \o r.text)

\* The detail ends with the decoded body j; the body text stands for it.
TokenMissingError(r) ==
  HTTPException(TokenErrorStatus, "EUIPO token missing in response: " \o r.text)

\* Variant: an expiry already in the cache is only ever extended.
CacheWriteKeepLaterExp(cache, tok, t, expires_in) ==
  [token |-> tok,
   exp |-> IF cache.exp > t + expires_in THEN cache.exp ELSE t + expires_in]

\* _token_cache["token"] = token; _token_cache["exp"] = int(time.time()) + expires_in
CacheWrite(cache, tok, t, expires_in) == [token |-> tok, exp |-> t + expires_in]

\* Variant: a failed exchange also drops the cached credential.
TokenExchangeClearOnFail(cache, r, t) ==
  IF r.timeout
    THEN [outcome |-> Raise(TimeoutException), cache |-> EmptyCache]
  ELSE IF r.status_code # HttpOk
    THEN [outcome |-> Raise(TokenError(r)), cache |-> EmptyCache]
  ELSE IF ~Truthy(Get(r.json, "access_token"))
    THEN [outcome |-> Raise(TokenMissingError(r)), cache |-> EmptyCache]
  ELSE [outcome |-> Return(Get(r.json, "access_token")),
        cache |-> CacheWrite(cache, Get(r.json, "access_token"), t,
                             ExpiresInOf(r.json))]

\* The part of _get_access_token after the await, at time t.
TokenExchange(cache, r, t) ==
  IF r.timeout
    THEN [outcome |-> Raise(TimeoutException), cache |-> cache]
  ELSE IF r.status_code # HttpOk
    THEN [outcome |-> Raise(TokenError(r)), cache |-> cache]
  ELSE IF ~Truthy(Get(r.json, "access_token"))
    THEN [outcome |-> Raise(TokenMissingError(r)), cache |-> cache]
  ELSE [outcome |-> Return(Get(r.json, "access_token")),
        cache |-> CacheWrite(cache, Get(r.json, "access_token"), t,
                             ExpiresInOf(r.json))]

\* --------------------------------------------------- _euipo_get_trademarks
SearchCall(tok, text, page, size) ==
  [token |-> tok, text |-> text, page |-> page, size |-> size]

\* Variant: every upstream failure is reported as a bad gateway.
SearchErrorBadGateway(r) ==
  HTTPException(TokenErrorStatus, "EUIPO search error: " \o r.text)

SearchError(r) ==
  HTTPException(r.status_code, "EUIPO search error: " \o r.text)

\* The part of _euipo_get_trademarks after the await.
EuipoGetTrademarks(r) ==
  IF r.timeout THEN Raise(TimeoutException)
  ELSE IF r.status_code # HttpOk THEN Raise(SearchError(r))
  ELSE Return(r.json)

\* ------------------------------------------------------------ euipo_search
\* data.get("trademarks", [])
TrademarksOf(data) == GetOr(data, "trademarks", <<>>)

\* Variant: the result echoes the text of the last search call.
SearchBodyStripped(pl, cleaned) ==
  [query |-> _strip_diacritics(pl.text), page |-> pl.page, size |-> pl.size,
   results |-> cleaned]

SearchBody(pl, cleaned) ==
  [query |-> pl.text, page |-> pl.page, size |-> pl.size, results |-> cleaned]

\* Variant: the retry does not look at the primary result.
ShouldRetryNonEmpty(cleaned, text) == _strip_diacritics(text) # text

\* if not cleaned: stripped = ...; if stripped != payload.text
ShouldRetry(cleaned, text) == cleaned = <<>> /\ _strip_diacritics(text) # text

\* Variant: the retry repeats the original text.
RetryCallUnstripped(tok, pl) == SearchCall(tok, pl.text, pl.page, pl.size)

RetryCall(tok, pl) ==
  SearchCall(tok, _strip_diacritics(pl.text), pl.page, pl.size)

\* The handler after a search call returned or raised: what it ends with,
\* or "none" when it goes on to the retry call.
AfterPrimary(pl, got) ==
  IF got.kind = "raise" THEN got
  ELSE LET c == _clean(TrademarksOf(got.body), pl.niceClasses) IN
       IF c.raises THEN Raise(PyException(c.exc))
       ELSE IF ShouldRetry(c.value, pl.text) THEN NoOutcome
       ELSE Return(SearchBody(pl, c.value))

\* Variant: the retry result is dropped and the empty primary result kept.
AfterRetryKeepPrimary(pl, got) ==
  IF got.kind = "raise" THEN got
  ELSE LET c == _clean(TrademarksOf(got.body), pl.niceClasses) IN
       IF c.raises THEN Raise(PyException(c.exc))
       ELSE Return(SearchBody(pl, <<>>))

\* Variant: a failed retry falls back to the empty primary result.
AfterRetrySwallow(pl, got) ==
  IF got.kind = "raise" THEN Return(SearchBody(pl, <<>>))
  ELSE LET c == _clean(TrademarksOf(got.body), pl.niceClasses) IN
       IF c.raises THEN Raise(PyException(c.exc))
       ELSE Return(SearchBody(pl, c.value))

AfterRetry(pl, got) ==
  IF got.kind = "raise" THEN got
  ELSE LET c == _clean(TrademarksOf(got.body), pl.niceClasses) IN
       IF c.raises THEN Raise(PyException(c.exc))
       ELSE Return(SearchBody(pl, c.value))


\* --------------------------------------------------------------- euipo_raw
\* str.upper() on the mark-feature values that occur.
StrUpper(s) ==
  CASE s = "Word" -> "WORD"
    [] s = "word" -> "WORD"
    [] OTHER -> s

\* (t.get("markFeature") or "").upper() == mf
MarkFeatureIs(t, mf) == StrUpper(Or(Get(t, "markFeature"), JStr("")).s) = mf

\* trademarks[:limit]
Take(l, n) == SubSeq(l, 1, IF n < Len(l) THEN n ELSE Len(l))

RawTrademarks(pl, data) ==
  LET all == TrademarksOf(data)
      byFeature ==
        IF Truthy(pl.markFeature)
          THEN SelectSeq(all, LAMBDA t :
                 MarkFeatureIs(t, StrUpper(StrStrip(pl.markFeature.s))))
          ELSE all
  IN IF Truthy(pl.limit) THEN Take(byFeature, pl.limit.i) ELSE byFeature

RawBody(pl, data) ==
  [trademarks |-> RawTrademarks(pl, data),
   queryEcho |-> [text |-> pl.text, page |-> pl.page, size |-> pl.size,
                  markFeature |-> pl.markFeature, limit |-> pl.limit]]

AfterRaw(pl, got) ==
  IF got.kind = "raise" THEN got ELSE Return(RawBody(pl, got.body))

RawPayloads ==
  {[text |-> <<"a">>, page |-> 0, size |-> 10,
    markFeature |-> JNone, limit |-> JNone],
   [text |-> <<"a">>, page |-> 0, size |-> 10,
    markFeature |-> JStr(" word "), limit |-> JInt(1)]}

PayloadsOf(p) == IF p \in SearchProcs THEN Payloads ELSE RawPayloads

\* =================================================================== state
VARIABLES
  EUIPO_CLIENT_ID,      \* module constants read from the environment
  EUIPO_CLIENT_SECRET,
  _token_cache,         \* the process-wide credential {"token", "exp"}
  clock,                \* int(time.time())
  pc,                   \* where each request's coroutine is suspended
  payload,              \* the request's payload
  now,                  \* local `now` of _get_access_token
  token,                \* local `token` of the handler
  outcome,              \* what the handler ended with
  \* history, for stating the properties
  requests,             \* requests started so far
  authCalls,            \* POSTs sent to the authentication endpoint
  calls,                \* search calls sent for the current request
  ret,                  \* how _get_access_token returned its token
  authResp,             \* the response that made the token exchange fail
  primary,              \* what the first search call came back with
  retry,                \* what the second search call came back with
  lastExchange,         \* (token, exp) of the last successful exchange
  \* the normalizer on its own
  nPc,                  \* "off", "input" or "done"
  nRecords,             \* the batch of raw records given to _clean
  nFilter,              \* payload.niceClasses
  nResult               \* what _clean returned or raised

vars ==
  <<EUIPO_CLIENT_ID, EUIPO_CLIENT_SECRET, _token_cache, clock, pc, payload,
    now, token, outcome, requests, authCalls, calls, ret, authResp, primary,
    retry, lastExchange, nPc, nRecords, nFilter, nResult>>

norm == <<nPc, nRecords, nFilter, nResult>>

env == <<EUIPO_CLIENT_ID, EUIPO_CLIENT_SECRET>>

\* src: "cache" or "exchange"; remaining: exp - time at the return;
\* sent: `now` of a call that sent a token exchange; granted: the
\* upstream's expires_in, if any.
NoRet ==
  [src |-> "none", remaining |-> 0, expires_in |-> 0, sent |-> 0,
   granted |-> JNone]

\* A received response, as far as the handler looks at it: timeout, status
\* and body text, and for a search success the normalized records.
NoResp ==
  [seen |-> FALSE, timeout |-> FALSE, status_code |-> 0, text |-> "",
   cleaned |-> <<>>]
Seen(r, cleaned) ==
  [seen |-> TRUE, timeout |-> r.timeout, status_code |-> r.status_code,
   text |-> r.text, cleaned |-> cleaned]

\* The normalized records of a response, for the history only.
CleanedOf(pl, r) ==
  IF r.timeout \/ r.status_code # HttpOk THEN <<>>
  ELSE _clean(TrademarksOf(r.json), pl.niceClasses).value

NoClean == [raises |-> FALSE, exc |-> "", value |-> <<>>]

EnvValues == {"", "client"}

Init ==
  /\ EUIPO_CLIENT_ID \in EnvValues
  /\ EUIPO_CLIENT_SECRET \in EnvValues
  /\ _token_cache = EmptyCache
  /\ clock = 0
  /\ pc = [p \in Procs |-> "idle"]
  /\ payload = [p \in Procs |-> NoPayload]
  /\ now = [p \in Procs |-> 0]
  /\ token = [p \in Procs |-> JNone]
  /\ outcome = [p \in Procs |-> NoOutcome]
  /\ requests = 0
  /\ authCalls = 0
  /\ calls = [p \in Procs |-> <<>>]
  /\ ret = [p \in Procs |-> NoRet]
  /\ authResp = [p \in Procs |-> NoResp]
  /\ primary = [p \in Procs |-> NoResp]
  /\ retry = [p \in Procs |-> NoResp]
  /\ lastExchange = EmptyCache
  /\ nPc = "off"
  /\ nRecords = <<>>
  /\ nFilter = JNone
  /\ nResult = NoClean

\* ----------------------------------------------------------------- actions
\* Time passes.
Tick ==
  /\ clock < MaxTime
  /\ clock' = clock + 1
  /\ UNCHANGED <<norm, env, _token_cache, pc, payload, now, token, outcome,
                 requests, authCalls, calls, ret, authResp, primary, retry,
                 lastExchange>>

\* A request arrives; _get_access_token: _require_env raises.
ConfigError(p, pl) ==
  /\ pc[p] = "idle"
  /\ requests < MaxRequests
  /\ RequireEnvFails(EUIPO_CLIENT_ID, EUIPO_CLIENT_SECRET)
  /\ requests' = requests + 1
  /\ payload' = [payload EXCEPT ![p] = pl]
  /\ outcome' = [outcome EXCEPT ![p] = Raise(EnvError)]
  /\ pc' = [pc EXCEPT ![p] = "done"]
  /\ UNCHANGED <<norm, env, _token_cache, clock, now, token, authCalls, calls, ret,
                 authResp, primary, retry, lastExchange>>

\* A request arrives; _get_access_token returns the cached token and the
\* handler sends its first search call.
CacheHit(p, pl) ==
  /\ pc[p] = "idle"
  /\ requests < MaxRequests
  /\ ~RequireEnvFails(EUIPO_CLIENT_ID, EUIPO_CLIENT_SECRET)
  /\ CacheValid(_token_cache, clock)
  /\ requests' = requests + 1
  /\ payload' = [payload EXCEPT ![p] = pl]
  /\ token' = [token EXCEPT ![p] = _token_cache.token]
  /\ ret' = [ret EXCEPT ![p] = [src |-> "cache",
                                remaining |-> _token_cache.exp - clock,
                                expires_in |-> 0, sent |-> 0,
                                granted |-> JNone]]
  /\ calls' = [calls EXCEPT ![p] =
                 <<SearchCall(_token_cache.token, pl.text, pl.page, pl.size)>>]
  /\ pc' = [pc EXCEPT ![p] = "primary_wait"]
  /\ UNCHANGED <<norm, env, _token_cache, clock, now, outcome, authCalls, authResp,
                 primary, retry, lastExchange>>

\* A request arrives; _get_access_token finds no usable cached token and
\* sends the token exchange.
CacheMiss(p, pl) ==
  /\ pc[p] = "idle"
  /\ requests < MaxRequests
  /\ ~RequireEnvFails(EUIPO_CLIENT_ID, EUIPO_CLIENT_SECRET)
  /\ ~CacheValid(_token_cache, clock)
  /\ requests' = requests + 1
  /\ payload' = [payload EXCEPT ![p] = pl]
  /\ now' = [now EXCEPT ![p] = clock]
  /\ authCalls' = authCalls + 1
  /\ pc' = [pc EXCEPT ![p] = "auth_wait"]
  /\ UNCHANGED <<norm, env, _token_cache, clock, token, outcome, calls, ret,
                 authResp, primary, retry, lastExchange>>

\* The token exchange fails: timeout, non-200, or no access_token.
AuthFail(p, r) ==
  /\ pc[p] = "auth_wait"
  /\ TokenExchange(_token_cache, r, clock).outcome.kind = "raise"
  /\ authResp' = [authResp EXCEPT ![p] = Seen(r, <<>>)]
  /\ outcome' = [outcome EXCEPT ![p] = TokenExchange(_token_cache, r, clock).outcome]
  /\ _token_cache' = TokenExchange(_token_cache, r, clock).cache
  /\ now' = [now EXCEPT ![p] = 0]
  /\ pc' = [pc EXCEPT ![p] = "done"]
  /\ UNCHANGED <<norm, env, clock, payload, token, requests, authCalls, calls,
                 ret, primary, retry, lastExchange>>

\* The token exchange succeeds: the cache is overwritten, the token is
\* returned and the handler sends its first search call.
AuthOk(p, r) ==
  /\ pc[p] = "auth_wait"
  /\ TokenExchange(_token_cache, r, clock).outcome.kind = "return"
  /\ LET x == TokenExchange(_token_cache, r, clock)
         tok == x.outcome.body
     IN /\ _token_cache' = x.cache
        /\ lastExchange' = [token |-> r.json["access_token"],
                            exp |-> clock + ExpiresInOf(r.json)]
        /\ token' = [token EXCEPT ![p] = tok]
        /\ ret' = [ret EXCEPT ![p] = [src |-> "exchange",
                                      remaining |-> x.cache.exp - clock,
                                      expires_in |-> ExpiresInOf(r.json),
                                      sent |-> now[p],
                                      granted |-> Get(r.json, "expires_in")]]
        /\ calls' = [calls EXCEPT ![p] =
                       <<SearchCall(tok, payload[p].text, payload[p].page,
                                    payload[p].size)>>]
  /\ now' = [now EXCEPT ![p] = 0]
  /\ pc' = [pc EXCEPT ![p] = "primary_wait"]
  /\ UNCHANGED <<norm, env, clock, payload, outcome, requests, authCalls, authResp,
                 primary, retry>>

\* /euipo/search: the first search call comes back and the handler ends
\* (with a result or an error).
PrimaryDone(p, r) ==
  /\ p \in SearchProcs
  /\ pc[p] = "primary_wait"
  /\ AfterPrimary(payload[p], EuipoGetTrademarks(r)).kind # "none"
  /\ primary' = [primary EXCEPT ![p] = Seen(r, CleanedOf(payload[p], r))]
  /\ outcome' = [outcome EXCEPT ![p] =
                   AfterPrimary(payload[p], EuipoGetTrademarks(r))]
  /\ pc' = [pc EXCEPT ![p] = "done"]
  /\ UNCHANGED <<norm, env, _token_cache, clock, payload, now, token, requests,
                 authCalls, calls, ret, authResp, retry, lastExchange>>

\* Variant: the retry takes the token from the cache again.
PrimaryRetryFromCache(p, r) ==
  /\ p \in SearchProcs
  /\ pc[p] = "primary_wait"
  /\ AfterPrimary(payload[p], EuipoGetTrademarks(r)).kind = "none"
  /\ primary' = [primary EXCEPT ![p] = Seen(r, CleanedOf(payload[p], r))]
  /\ calls' = [calls EXCEPT ![p] =
                 Append(@, RetryCall(_token_cache.token, payload[p]))]
  /\ pc' = [pc EXCEPT ![p] = "retry_wait"]
  /\ UNCHANGED <<norm, env, _token_cache, clock, payload, now, token, outcome,
                 requests, authCalls, ret, authResp, retry, lastExchange>>

\* /euipo/search: the first search call comes back with nothing that
\* passes the filter and the stripped text differs: the second search call
\* is sent.
PrimaryRetry(p, r) ==
  /\ p \in SearchProcs
  /\ pc[p] = "primary_wait"
  /\ AfterPrimary(payload[p], EuipoGetTrademarks(r)).kind = "none"
  /\ primary' = [primary EXCEPT ![p] = Seen(r, CleanedOf(payload[p], r))]
  /\ calls' = [calls EXCEPT ![p] = Append(@, RetryCall(token[p], payload[p]))]
  /\ pc' = [pc EXCEPT ![p] = "retry_wait"]
  /\ UNCHANGED <<norm, env, _token_cache, clock, payload, now, token, outcome,
                 requests, authCalls, ret, authResp, retry, lastExchange>>

\* /euipo/search: the second search call comes back and the handler ends.
RetryDone(p, r) ==
  /\ p \in SearchProcs
  /\ pc[p] = "retry_wait"
  /\ retry' = [retry EXCEPT ![p] = Seen(r, CleanedOf(payload[p], r))]
  /\ outcome' = [outcome EXCEPT ![p] =
                   AfterRetry(payload[p], EuipoGetTrademarks(r))]
  /\ pc' = [pc EXCEPT ![p] = "done"]
  /\ UNCHANGED <<norm, env, _token_cache, clock, payload, now, token, requests,
                 authCalls, calls, ret, authResp, primary, lastExchange>>

\* /euipo/raw: the search call comes back and the handler ends.
RawDone(p, r) ==
  /\ p \in RawProcs
  /\ pc[p] = "primary_wait"
  /\ primary' = [primary EXCEPT ![p] = Seen(r, <<>>)]
  /\ outcome' = [outcome EXCEPT ![p] =
                   AfterRaw(payload[p], EuipoGetTrademarks(r))]
  /\ pc' = [pc EXCEPT ![p] = "done"]
  /\ UNCHANGED <<norm, env, _token_cache, clock, payload, now, token, requests,
                 authCalls, calls, ret, authResp, retry, lastExchange>>

\* The response has been sent; the coroutine and its locals are gone.
Finish(p) ==
  /\ pc[p] = "done"
  /\ pc' = [pc EXCEPT ![p] = "idle"]
  /\ payload' = [payload EXCEPT ![p] = NoPayload]
  /\ token' = [token EXCEPT ![p] = JNone]
  /\ outcome' = [outcome EXCEPT ![p] = NoOutcome]
  /\ calls' = [calls EXCEPT ![p] = <<>>]
  /\ ret' = [ret EXCEPT ![p] = NoRet]
  /\ authResp' = [authResp EXCEPT ![p] = NoResp]
  /\ primary' = [primary EXCEPT ![p] = NoResp]
  /\ retry' = [retry EXCEPT ![p] = NoResp]
  /\ UNCHANGED <<norm, env, _token_cache, clock, now, requests, authCalls,
                 lastExchange>>

Next ==
  \/ Tick
  \/ \E p \in Procs : \E pl \in PayloadsOf(p) : ConfigError(p, pl)
  \/ \E p \in Procs : \E pl \in PayloadsOf(p) : CacheHit(p, pl)
  \/ \E p \in Procs : \E pl \in PayloadsOf(p) : CacheMiss(p, pl)
  \/ \E p \in Procs, r \in AuthResponses : AuthFail(p, r)
  \/ \E p \in Procs, r \in AuthResponses : AuthOk(p, r)
  \/ \E p \in Procs, r \in SearchResponses : PrimaryDone(p, r)
  \/ \E p \in Procs, r \in SearchResponses : PrimaryRetry(p, r)
  \/ \E p \in Procs, r \in SearchResponses : RetryDone(p, r)
  \/ \E p \in Procs, r \in SearchResponses : RawDone(p, r)
  \/ \E p \in Procs : Finish(p)

\* ------------------------------------------------- the normalizer on its own
MaxBatch == 2

\* Raw records, well-formed and not: a blank nested verbal element with a
\* non-string markText, niceClasses that is a number, a wordMarkSpecification
\* that is a string, and a top-level verbalElement.
NormRecords ==
  RawRecords \cup
  {[applicationNumber |-> JStr("003"),
    wordMarkSpecification |-> JDict([verbalElement |-> JStr(" ")]),
    markText |-> JInt(7), reference |-> JStr("Ref")],
   [applicationNumber |-> JStr("004"), niceClasses |-> JInt(5)],
   [applicationNumber |-> JStr("005"), wordMarkSpecification |-> JStr("x"),
    title |-> JStr("Acme"), niceClasses |-> JList(<<9>>)],
   [applicationNumber |-> JStr("006"), verbalElement |-> JStr("Top"),
    name |-> JStr("Other"), niceClasses |-> JList(<<9>>)]}

NormFilters ==
  {JNone, JList(<<>>), JList(<<9>>), JList(<<9, 35>>), JList(<<3>>)}

InitNorm ==
  /\ EUIPO_CLIENT_ID = "client"
  /\ EUIPO_CLIENT_SECRET = "client"
  /\ _token_cache = EmptyCache
  /\ clock = 0
  /\ pc = [p \in Procs |-> "idle"]
  /\ payload = [p \in Procs |-> NoPayload]
  /\ now = [p \in Procs |-> 0]
  /\ token = [p \in Procs |-> JNone]
  /\ outcome = [p \in Procs |-> NoOutcome]
  /\ requests = 0
  /\ authCalls = 0
  /\ calls = [p \in Procs |-> <<>>]
  /\ ret = [p \in Procs |-> NoRet]
  /\ authResp = [p \in Procs |-> NoResp]
  /\ primary = [p \in Procs |-> NoResp]
  /\ retry = [p \in Procs |-> NoResp]
  /\ lastExchange = EmptyCache
  /\ nPc = "input"
  /\ nRecords \in SeqsUpTo(NormRecords, MaxBatch)
  /\ nFilter \in NormFilters
  /\ nResult = NoClean

\* cleaned = _clean(data.get("trademarks", []))
Normalize ==
  /\ nPc = "input"
  /\ nResult' = _clean(nRecords, nFilter)
  /\ nPc' = "done"
  /\ UNCHANGED <<env, _token_cache, clock, pc, payload, now, token, outcome,
                 requests, authCalls, calls, ret, authResp, primary, retry,
                 lastExchange, nRecords, nFilter>>

NextNorm == Normalize

SpecNorm == InitNorm /\ [][NextNorm]_vars

Spec == Init /\ [][Next]_vars

TypeOK ==
  /\ clock \in 0..MaxTime
  /\ requests \in 0..MaxRequests
  /\ \A p \in Procs : pc[p] \in {"idle", "auth_wait", "primary_wait", "retry_wait", "done"}

\* ============================================================== properties
\* A response that is a non-success HTTP status.
Failed(h) == h.seen /\ ~h.timeout /\ h.status_code # 200
Succeeded(h) == h.seen /\ ~h.timeout /\ h.status_code = 200

\* C1 (as stated): every token _get_access_token returns, from the cache or
\* from a fresh exchange, has at least 30 seconds left when it is returned.
C1_Original ==
  \A p \in Procs : ret[p].src # "none" => ret[p].remaining >= 30

\* C1 (amended): a token returned from the cache has more than 30 seconds
\* left when it is returned (a cached one with 30 or less is not reused);
\* a token returned from a fresh exchange has exactly the upstream's
\* expires_in left, whatever that is.
C1_ReturnedValidity ==
  \A p \in Procs :
    /\ ret[p].src = "cache" => ret[p].remaining > 30
    /\ ret[p].src = "exchange" => ret[p].remaining = ret[p].expires_in

\* A cache hit at the boundary (31 seconds left) next to a fresh token that
\* the upstream issued for 29 seconds.
C1_Witness ==
  \E p, q \in Procs :
    /\ ret[p].src = "cache" /\ ret[p].remaining = 31
    /\ ret[q].src = "exchange" /\ ret[q].remaining = 29

\* C2: a call that arrives while the cache holds a token and
\* now < exp - 30 returns that cached token, sends no authentication call
\* and leaves the cache alone.
C2_CacheReuse ==
  [][\A p \in Procs :
       (/\ pc[p] = "idle" /\ pc'[p] # "idle"
        /\ _token_cache.token.ty = "str" /\ _token_cache.token.s # ""
        /\ clock < _token_cache.exp - 30)
       => (/\ authCalls' = authCalls
           /\ token'[p] = _token_cache.token
           /\ _token_cache' = _token_cache
           /\ ret'[p].src = "cache")]_vars

\* Three sequential calls served with one authentication call in total.
C2_Witness ==
  /\ requests = 3 /\ authCalls = 1
  /\ \E p \in Procs : ret[p].src = "cache" /\ ret[p].remaining = 31

\* C3: with a token in the cache, an arriving call reuses it if and only
\* if now < exp - 30; otherwise (29 or 30 seconds left) it sends a token
\* exchange.
C3_RefreshBoundary ==
  [][\A p \in Procs :
       (/\ pc[p] = "idle" /\ pc'[p] # "idle"
        /\ _token_cache.token.ty = "str" /\ _token_cache.token.s # "")
       => IF clock < _token_cache.exp - 30
            THEN authCalls' = authCalls /\ pc'[p] = "primary_wait"
            ELSE authCalls' = authCalls + 1 /\ pc'[p] = "auth_wait"]_vars

\* A call that found a token with exactly 30 seconds left and is waiting
\* for its token exchange.
C3_Witness ==
  \E p \in Procs :
    /\ pc[p] = "auth_wait"
    /\ _token_cache.token.ty = "str"
    /\ _token_cache.exp - now[p] = 30
    /\ clock = now[p]
    /\ authCalls = 2

\* C4: with the client id or the client secret empty, every request ends
\* with the configuration error and no authentication or search call is
\* ever sent.
C4_ConfigGate ==
  (EUIPO_CLIENT_ID = "" \/ EUIPO_CLIENT_SECRET = "")
  => /\ authCalls = 0
     /\ \A p \in Procs :
          /\ calls[p] = <<>>
          /\ pc[p] \in {"idle", "done"}
          /\ pc[p] = "done" =>
               /\ outcome[p].kind = "raise"
               /\ outcome[p].error.exc = "HTTPException"
               /\ outcome[p].error.status_code = 500
               /\ outcome[p].error.detail =
                    "Missing EUIPO_CLIENT_ID / EUIPO_CLIENT_SECRET env vars"

\* A search request that ended under a configuration with only the secret
\* missing.
C4_Witness ==
  /\ EUIPO_CLIENT_ID # "" /\ EUIPO_CLIENT_SECRET = ""
  /\ \E p \in SearchProcs : pc[p] = "done"

\* C5: a request sends at most two search calls, and a second one only
\* after the first came back with status 200 and nothing left after
\* normalization.
C5_AtMostOneRetry ==
  \A p \in Procs :
    /\ Len(calls[p]) <= 2
    /\ Len(calls[p]) = 2 => Succeeded(primary[p]) /\ primary[p].cleaned = <<>>
    /\ retry[p].seen => Len(calls[p]) = 2

\* A search request that ended after its second search call.
C5_Witness ==
  \E p \in SearchProcs : pc[p] = "done" /\ Len(calls[p]) = 2 /\ retry[p].seen

RaisedBySearch(h) ==
  IF h.timeout
    THEN [exc |-> "TimeoutException", status_code |-> 0, detail |-> ""]
    ELSE [exc |-> "HTTPException", status_code |-> h.status_code,
          detail |-> "EUIPO search error: " \o h.text]

\* C7: errors are not retried and not converted.  A request whose token
\* acquisition failed sends no search call; a failed first search call ends
\* the request with that error and without a second call; a failed second
\* search call ends the request with that error, not with the empty first
\* result; a request that returns a result saw no failure.
C7_ErrorsPropagate ==
  \A p \in SearchProcs :
    /\ (pc[p] = "done" /\ ret[p].src = "none")
         => calls[p] = <<>> /\ outcome[p].kind = "raise"
    /\ authResp[p].seen
         => pc[p] = "done" /\ calls[p] = <<>> /\ outcome[p].kind = "raise"
    /\ (primary[p].seen /\ ~Succeeded(primary[p]))
         => /\ pc[p] = "done" /\ Len(calls[p]) = 1 /\ ~retry[p].seen
            /\ outcome[p] = [kind |-> "raise", error |-> RaisedBySearch(primary[p])]
    /\ (retry[p].seen /\ ~Succeeded(retry[p]))
         => /\ pc[p] = "done"
            /\ outcome[p] = [kind |-> "raise", error |-> RaisedBySearch(retry[p])]
    /\ (pc[p] = "done" /\ outcome[p].kind = "return")
         => /\ ~authResp[p].seen
            /\ Succeeded(primary[p])
            /\ retry[p].seen => Succeeded(retry[p])

\* A search request whose second search call was answered with 429.
C7_Witness ==
  \E p \in SearchProcs :
    pc[p] = "done" /\ Failed(retry[p]) /\ retry[p].status_code = 429

\* C8 (as stated): a search call answered with status S and body B ends
\* the request with an error whose status is S and whose body is exactly B.
C8_Original ==
  \A p \in Procs :
    /\ Failed(primary[p]) =>
         /\ outcome[p].kind = "raise"
         /\ outcome[p].error.status_code = primary[p].status_code
         /\ outcome[p].error.detail = primary[p].text
    /\ Failed(retry[p]) =>
         /\ outcome[p].kind = "raise"
         /\ outcome[p].error.status_code = retry[p].status_code
         /\ outcome[p].error.detail = retry[p].text

\* C8 (amended): a search call answered with status S and body B ends the
\* request with an HTTPException whose status is S and whose detail is
\* "EUIPO search error: " followed by B.
C8_SearchErrorPassThrough ==
  \A p \in Procs :
    /\ Failed(primary[p]) =>
         /\ outcome[p].kind = "raise"
         /\ outcome[p].error.exc = "HTTPException"
         /\ outcome[p].error.status_code = primary[p].status_code
         /\ outcome[p].error.detail = "EUIPO search error: " \o primary[p].text
    /\ Failed(retry[p]) =>
         /\ outcome[p].kind = "raise"
         /\ outcome[p].error.exc = "HTTPException"
         /\ outcome[p].error.status_code = retry[p].status_code
         /\ outcome[p].error.detail = "EUIPO search error: " \o retry[p].text

\* A first search call answered with 429 "rate limited".
C8_Witness ==
  \E p \in Procs :
    /\ pc[p] = "done" /\ Failed(primary[p])
    /\ primary[p].status_code = 429 /\ primary[p].text = "rate limited"

C10_LastWriterWins ==
  /\ _token_cache = lastExchange
  /\ _token_cache.token.ty = "none" => _token_cache.exp = 0

\* Two requests that each performed their own exchange concurrently (the
\* first token was good for an hour) and got different tokens; the cache
\* holds the later one.
C10_Witness ==
  \E p, q \in Procs :
    /\ p # q
    /\ requests = 2 /\ authCalls = 2
    /\ ret[p].src = "exchange" /\ ret[p].remaining = 3600
    /\ ret[q].src = "exchange" /\ ret[q].remaining = 29
    /\ token[p] # token[q]
    /\ _token_cache = [token |-> token[q], exp |-> clock + 29]
    /\ clock = 0

\* C11 (as stated): a finished search request ended with a SearchResult or
\* with one of the three declared errors, which the code raises as
\* HTTPException; in particular a timed-out token exchange or search call
\* ends it with such an error.
C11_Original ==
  \A p \in SearchProcs :
    pc[p] = "done" =>
      \/ outcome[p].kind = "return"
      \/ outcome[p].kind = "raise" /\ outcome[p].error.exc = "HTTPException"

C17_QueryEcho ==
  \A p \in SearchProcs :
    (pc[p] = "done" /\ outcome[p].kind = "return") =>
      /\ outcome[p].body.query = payload[p].text
      /\ outcome[p].body.page = payload[p].page
      /\ outcome[p].body.size = payload[p].size
      /\ outcome[p].body.query = calls[p][1].text
      /\ outcome[p].body.page = calls[p][1].page
      /\ outcome[p].body.size = calls[p][1].size

\* A result returned after a retry with "u" that echoes "u_grave".
C17_Witness ==
  \E p \in SearchProcs :
    /\ pc[p] = "done" /\ outcome[p].kind = "return"
    /\ Len(calls[p]) = 2 /\ calls[p][2].text = <<"u">>
    /\ outcome[p].body.query = <<"u_grave">>
    /\ outcome[p].body.page = 1

\* The seconds an exchange was granted: the upstream's expires_in, or 3600.
GrantedSeconds(g) == IF g.ty = "int" THEN g.i ELSE 3600

\* C18 (as stated): a successful exchange that started at time `now`
\* leaves the cache with the response's token and exp = now + expires_in
\* (3600 if omitted), and returns that token.
C18_Original ==
  [][\A p \in Procs :
       (pc[p] = "auth_wait" /\ pc'[p] = "primary_wait")
       => /\ _token_cache'.exp = now[p] + GrantedSeconds(ret'[p].granted)
          /\ _token_cache'.token = token'[p]]_vars

\* C18 (amended): a successful exchange leaves the cache with the
\* response's token and exp = t + expires_in (3600 if omitted), where t is
\* the time at which the response is processed, not the time the call
\* started; it returns that token.
C18_CacheAfterExchange ==
  [][\A p \in Procs :
       (pc[p] = "auth_wait" /\ pc'[p] = "primary_wait")
       => /\ _token_cache'.exp = clock + GrantedSeconds(ret'[p].granted)
          /\ _token_cache'.token = token'[p]
          /\ token'[p] = calls'[p][1].token
          /\ token'[p].ty = "str" /\ token'[p].s # ""]_vars

\* An exchange that started at time 0, was answered at time 1 without
\* expires_in, and left exp = 1 + 3600 in the cache.
C18_Witness ==
  \E p \in Procs :
    /\ ret[p].src = "exchange" /\ ret[p].sent = 0
    /\ ret[p].granted = [ty |-> "none"]
    /\ clock = 1
    /\ _token_cache = [token |-> token[p], exp |-> 3601]

\* C19: the cache changes only in the step that completes a successful
\* token exchange; a failed exchange (timeout, non-200, 200 without
\* access_token, which ends with a 502 HTTPException), a cache hit and the
\* search steps leave it as it was, and a cached token is never removed.
C19_CacheFrame ==
  [][/\ _token_cache' # _token_cache
          => \E p \in Procs :
               /\ pc[p] = "auth_wait" /\ pc'[p] = "primary_wait"
               /\ ret'[p].src = "exchange"
     /\ _token_cache.token.ty = "str" => _token_cache'.token.ty = "str"
     /\ \A p \in Procs :
          (pc[p] = "auth_wait" /\ pc'[p] = "done")
          => /\ _token_cache' = _token_cache
             /\ (authResp'[p].status_code = 200 /\ ~authResp'[p].timeout)
                  => /\ outcome'[p].error.exc = "HTTPException"
                     /\ outcome'[p].error.status_code = 502]_vars

\* A request whose exchange got a 200 without a usable access_token while
\* the cache held a credential, which is still there.
C19_Witness ==
  \E p \in Procs :
    /\ pc[p] = "done" /\ authResp[p].seen /\ authResp[p].status_code = 200
    /\ _token_cache.token.ty = "str"
    /\ _token_cache = lastExchange

\* C20: a search request obtains its token once, before its first search
\* call, and both search calls carry that token, whatever happens to the
\* cache meanwhile.
C20_OneTokenPerRequest ==
  /\ [](\A p \in SearchProcs :
          /\ calls[p] # <<>> => ret[p].src # "none"
          /\ \A i \in 1..Len(calls[p]) : calls[p][i].token = token[p])
  /\ [][\A p \in SearchProcs :
          /\ ret[p].src # "none" =>
               \/ ret'[p] = ret[p] /\ token'[p] = token[p]
               \/ pc'[p] = "idle"
          /\ (pc[p] # "idle" /\ pc'[p] # "idle") => authCalls' >= authCalls
          /\ (pc[p] \in {"primary_wait", "retry_wait"})
               => (authCalls' = authCalls
                   \/ \E q \in Procs \ {p} : pc[q] = "idle" /\ pc'[q] = "auth_wait")]_vars

\* A search request in its retry whose token is no longer the cached one:
\* a concurrent refresh replaced it, and the token it uses had 29 seconds
\* left when it was obtained.
C20_Witness ==
  \E p \in SearchProcs :
    /\ Len(calls[p]) = 2
    /\ calls[p][2].token = calls[p][1].token
    /\ _token_cache.token.ty = "str"
    /\ _token_cache.token # calls[p][2].token
    /\ ret[p].remaining = 29

\* ------------------------------------------------ normalizer properties
\* A field of a raw record, or none when it is missing.
Field(t, k) == IF k \in DOMAIN t THEN t[k] ELSE [ty |-> "none"]

\* The categories of a raw record and of a filter, as sets; missing or not
\* a list counts as empty.
ListSet(v) == IF v.ty = "list" THEN {v.l[i] : i \in DOMAIN v.l} ELSE {}
Categories(t) == ListSet(Field(t, "niceClasses"))

\* The retention rule: no filter, or a common category.
ShouldRetain(t, F) == ListSet(F) = {} \/ Categories(t) \cap ListSet(F) # {}

Kept == SelectSeq(nRecords, LAMBDA t : ShouldRetain(t, nFilter))

Occurrences(seq, a) ==
  Cardinality({i \in DOMAIN seq : Field(seq[i], "applicationNumber") = a})

\* C13 (as stated): for every raw record R and filter F, normalize retains
\* R if and only if F is absent or empty or categories(R) meets F: each
\* record is in the output as often as it is in the input when the rule
\* holds for it, and not at all otherwise.
C13_Original ==
  nPc = "done" =>
    \A i \in DOMAIN nRecords :
      LET a == Field(nRecords[i], "applicationNumber") IN
      Occurrences(nResult.value, a) =
        IF ShouldRetain(nRecords[i], nFilter) THEN Occurrences(nRecords, a)
        ELSE 0

\* C14 (as stated): normalize returns for every batch, malformed records
\* included; it never raises.
C14_Original == nPc = "done" => ~nResult.raises

\* A non-blank string of the record universe.
NonBlank(v) == v.ty = "str" /\ v.s \notin {"", " "}

\* The value the label is taken from: the nested verbal element, else the
\* first non-blank string of markText, verbalElement, reference, title,
\* name; none if there is none.
LabelSource(t) ==
  LET w == Field(t, "wordMarkSpecification")
      nested == IF w.ty = "dict" THEN Field(w.d, "verbalElement")
                ELSE [ty |-> "none"]
  IN IF NonBlank(nested) THEN nested
     ELSE IF NonBlank(Field(t, "markText")) THEN Field(t, "markText")
     ELSE IF NonBlank(Field(t, "verbalElement")) THEN Field(t, "verbalElement")
     ELSE IF NonBlank(Field(t, "reference")) THEN Field(t, "reference")
     ELSE IF NonBlank(Field(t, "title")) THEN Field(t, "title")
     ELSE IF NonBlank(Field(t, "name")) THEN Field(t, "name")
     ELSE [ty |-> "none"]

\* Leading and trailing blanks removed.
Trimmed(v) == IF v.ty = "str" THEN [ty |-> "str", s |-> StrStrip(v.s)] ELSE v

\* C15 (as stated): the label of a normalized record is the nested verbal
\* element if it is a non-blank string, else the first non-blank string of
\* the five top-level fields in their order, else absent.
C15_Original ==
  nPc = "done" =>
    \A i \in DOMAIN nResult.value :
      i <= Len(Kept) /\ nResult.value[i].verbalElement = LabelSource(Kept[i])

\* C15 (amended): the label of a normalized record is that value with its
\* leading and trailing whitespace removed.
C15_LabelFallback ==
  nPc = "done" =>
    \A i \in DOMAIN nResult.value :
      /\ i <= Len(Kept)
      /\ nResult.value[i].verbalElement = Trimmed(LabelSource(Kept[i]))

\* A batch whose first record has title "Acme" and name "Other" and no
\* verbal element, normalized with label "Acme", and whose second record
\* has the nested verbal element " Acme ", normalized with label "Acme".
C15_Witness ==
  /\ nPc = "done" /\ Len(nRecords) = 2 /\ Len(nResult.value) = 2
  /\ "title" \in DOMAIN nRecords[1] /\ "name" \in DOMAIN nRecords[1]
  /\ "wordMarkSpecification" \notin DOMAIN nRecords[1]
  /\ nResult.value[1].verbalElement = [ty |-> "str", s |-> "Acme"]
  /\ "wordMarkSpecification" \in DOMAIN nRecords[2]
  /\ nRecords[2].wordMarkSpecification.ty = "dict"
  /\ nRecords[2].wordMarkSpecification.d.verbalElement.s = " Acme "
  /\ nResult.value[2].verbalElement = [ty |-> "str", s |-> "Acme"]

\* C16 (as stated): the output of normalize has one record per retained
\* input record, in the input's order, with the record's fields, duplicates
\* included.
C16_Original ==
  nPc = "done" =>
    /\ Len(nResult.value) = Len(Kept)
    /\ \A i \in DOMAIN nResult.value :
         /\ nResult.value[i].applicationNumber = Field(Kept[i], "applicationNumber")
         /\ nResult.value[i].status = Field(Kept[i], "status")
         /\ nResult.value[i].markFeature = Field(Kept[i], "markFeature")
         /\ nResult.value[i].applicationDate = Field(Kept[i], "applicationDate")
         /\ nResult.value[i].registrationDate = Field(Kept[i], "registrationDate")
====
